---- MODULE Spec2Model ----
(***************************************************************************)
(* Galton board simulation (the state machine of src/script.js, the        *)
(* variant with the explicit isSettling state, lines 355-931).             *)
(*                                                                         *)
(* Numbers.  JavaScript numbers are modelled in fixed point: lengths,      *)
(* positions and velocities are integers in thousandths of a pixel,        *)
(* factors (scaleFactor, GRAVITY, BOUNCE_FACTOR, Math.random()) are        *)
(* integers in thousandths.  A product is truncated toward zero.  NaN is   *)
(* the value NaN.  canvas.width and canvas.height are whole pixels (the    *)
(* DOM attribute is an unsigned long).                                     *)
(***************************************************************************)
EXTENDS Integers, Sequences, FiniteSets, TLC

\* ---------------------------------------------------------------- bounds
\* Largest valid row count, ball total and bin capacity the inputs offer.
MaxRows == 1
MaxBalls == 2
MaxCap == 1

\* ------------------------------------------------------ program constants
BASE_PEG_RADIUS == 6
BASE_BALL_RADIUS == 5
BASE_PEG_SPACING_X == 40
BASE_PEG_SPACING_Y == 30
BASE_START_Y_OFFSET == 30
BASE_DRAWN_BIN_HEIGHT == 60
BASE_SPACE_BELOW_PEGS == BASE_PEG_SPACING_Y
BASE_BOTTOM_PADDING == 40
\* 0.15, 0.1 and 1.5 in thousandths
GRAVITY == 150
BOUNCE_FACTOR == 100
HORIZONTAL_BUMP == 1500
CANVAS_MARGIN_LEFT == 10
CANVAS_MARGIN_RIGHT == 10

\* The null handle (animationFrameId = null); timer handles are 1, 2, ...
Null == 0
\* The declared-but-unassigned handle (let dropIntervalId;), falsy like null.
Undefined == -1
\* The result of parseInt on a text without leading digits.
NaN == -1000000

\* ------------------------------------------------------------- arithmetic
Abs(a) == IF a < 0 THEN -a ELSE a

\* Math.sign
Sign(a) == IF a > 0 THEN 1 ELSE IF a < 0 THEN -1 ELSE 0

\* a / d truncated toward zero (d > 0)
TruncDiv(a, d) == IF a >= 0 THEN a \div d ELSE -((-a) \div d)

\* a * f for a factor f given in thousandths
Times(a, f) == TruncDiv(a * f, 1000)

\* whole pixels to thousandths of a pixel
Px(n) == n * 1000

Truthy(h) == h # Null /\ h # Undefined /\ h # NaN

\* ------------------------------------------------------------ input texts
\* The text of an input field: a sequence of characters, 0..9 the digits,
\* 10 a letter, 11 the minus sign.
IsDigit(c) == c \in 0..9

IsMinus(c) == c = 11

RECURSIVE ParseDigits(_, _, _)
ParseDigits(s, i, acc) ==
    IF i > Len(s) \/ ~IsDigit(s[i]) THEN acc
    ELSE ParseDigits(s, i + 1, acc * 10 + s[i])

\* parseInt(text): an optional sign and the leading digits, NaN when there
\* is no digit.
parseInt(s) ==
    LET first == IF Len(s) > 0 /\ IsMinus(s[1]) THEN 2 ELSE 1 IN
    IF first > Len(s) \/ ~IsDigit(s[first]) THEN NaN
    ELSE IF first = 2 THEN -ParseDigits(s, 2, 0)
    ELSE ParseDigits(s, 1, 0)

\* The texts the user may type into the three inputs: empty or non-numeric,
\* below the range (negative, for the capacity), inside it (up to the bound),
\* above the range.
RowTexts == {<<>>, <<3, 1>>} \cup {<<r>> : r \in 0..MaxRows}
BallTexts == {<<>>, <<5, 0, 0, 1>>} \cup {<<n>> : n \in 0..MaxBalls}
CapTexts == {<<10>>, <<11, 1>>, <<1, 0, 0, 1>>} \cup {<<c>> : c \in 0..MaxCap}

\* window.innerWidth, in pixels: a narrow and a wide viewport.
Widths == {110, 1000}

\* Math.random() in thousandths, per call site.  createBall: the two ends of
\* [0, 1), a ball that starts leftwards and one that starts rightwards.
JitterDraws == {0, 999}
\* The bump of a peg collision: the draw that the minimum speed replaces.
BumpDraws == {0}
\* The direction of the nudge off a full bin: below and above 0.5.
NudgeDraws == {0, 999}
\* The draws of one tick for one ball.
Draws == [bump : BumpDraws, nudge : NudgeDraws]

\* ---------------------------------------------------------------- layout
\* The second half of resizeCanvas: the scale factor and every dimension
\* derived from it, and the canvas size, from the peg spacing and the canvas
\* width the first half settled on.
ScaledLayout(spacingX, finalCanvasWidth, sf) ==
    [currentPegSpacingX |-> spacingX, scaleFactor |-> sf,
     currentPegSpacingY |-> BASE_PEG_SPACING_Y * sf,
     currentStartYOffset |-> BASE_START_Y_OFFSET * sf,
     currentPegRadius |-> BASE_PEG_RADIUS * sf,
     currentBallRadius |-> BASE_BALL_RADIUS * sf,
     currentDrawnBinHeight |-> BASE_DRAWN_BIN_HEIGHT * sf,
     currentSpaceBelowPegs |-> BASE_SPACE_BELOW_PEGS * sf,
     currentBottomPadding |-> BASE_BOTTOM_PADDING * sf,
     width |-> Px(finalCanvasWidth \div 1000),
     height |-> 0]

\* canvas.height is the sum of the vertical parts, in whole pixels.
WithHeight(R, L) ==
    LET h == L.currentStartYOffset + (R - 1) * L.currentPegSpacingY
             + L.currentPegRadius + L.currentSpaceBelowPegs
             + L.currentDrawnBinHeight + L.currentBottomPadding
    IN  [L EXCEPT !.height = IF h < 0 THEN 0 ELSE Px(h \div 1000)]

\* A layout that raises the spacing to the minimum but keeps the width.
FlooredLayoutKeepsWidth(R, width0, spacing0) ==
    LET minPegSpacingX == Px(BASE_PEG_RADIUS * 3) IN
    IF spacing0 < minPegSpacingX
    THEN WithHeight(R, ScaledLayout(minPegSpacingX, width0,
                                 TruncDiv(minPegSpacingX, BASE_PEG_SPACING_X)))
    ELSE WithHeight(R, ScaledLayout(spacing0, width0,
                                 TruncDiv(spacing0, BASE_PEG_SPACING_X)))

\* The peg spacing resizeCanvas settles on for the canvas width width0 that
\* fits: at least three peg radii.
FlooredLayout(R, width0, spacing0) ==
    LET minPegSpacingX == Px(BASE_PEG_RADIUS * 3) IN
    IF spacing0 < minPegSpacingX
    THEN WithHeight(R, ScaledLayout(minPegSpacingX,
                                 TruncDiv((2 * R + 7) * minPegSpacingX, 2),
                                 TruncDiv(minPegSpacingX, BASE_PEG_SPACING_X)))
    ELSE WithHeight(R, ScaledLayout(spacing0, width0,
                                 TruncDiv(spacing0, BASE_PEG_SPACING_X)))

\* The canvas width that fits the viewport, and the spacing it gives.
FittedLayout(R, width0) == FlooredLayout(R, width0, TruncDiv(width0 * 2, 2 * R + 7))

\* resizeCanvas: every scaled dimension from the row count R (already
\* parsed) and the viewport width W in pixels.  (R + 3.5) is (2R + 7) / 2.
resizeCanvas(R, W) ==
    IF R = NaN THEN
        [currentPegSpacingX |-> NaN, scaleFactor |-> NaN,
         currentPegSpacingY |-> NaN, currentStartYOffset |-> NaN,
         currentPegRadius |-> NaN, currentBallRadius |-> NaN,
         currentDrawnBinHeight |-> NaN, currentSpaceBelowPegs |-> NaN,
         currentBottomPadding |-> NaN, width |-> 0, height |-> 0]
    ELSE
    LET availableWidthForCanvasElement ==
            Px(W - CANVAS_MARGIN_LEFT - CANVAS_MARGIN_RIGHT)
        idealContentWidthUnscaled == TruncDiv((2 * R + 7) * Px(BASE_PEG_SPACING_X), 2)
    IN  IF idealContentWidthUnscaled > availableWidthForCanvasElement
        THEN FittedLayout(R, availableWidthForCanvasElement)
        ELSE FittedLayout(R, idealContentWidthUnscaled)

\* ----------------------------------------------------------------- board
\* A row that is one peg short.
PegRowShort(L, row) ==
    LET numPegsInRow == row
        rowWidth == (numPegsInRow - 1) * L.currentPegSpacingX
        startX == TruncDiv(L.width - rowWidth, 2)
    IN  [col \in 1..numPegsInRow |->
            [x |-> startX + (col - 1) * L.currentPegSpacingX,
             y |-> L.currentStartYOffset + row * L.currentPegSpacingY,
             radius |-> L.currentPegRadius]]

\* The pegs of one row, left to right.
PegRow(L, row) ==
    LET numPegsInRow == row + 1
        rowWidth == (numPegsInRow - 1) * L.currentPegSpacingX
        startX == TruncDiv(L.width - rowWidth, 2)
    IN  [col \in 1..numPegsInRow |->
            [x |-> startX + (col - 1) * L.currentPegSpacingX,
             y |-> L.currentStartYOffset + row * L.currentPegSpacingY,
             radius |-> L.currentPegRadius]]

RECURSIVE PegRows(_, _, _)
PegRows(R, L, row) ==
    IF row >= R THEN <<>> ELSE PegRow(L, row) \o PegRows(R, L, row + 1)

\* initPegs: row < NUM_ROWS is false for NaN.
initPegs(R, L) == IF R = NaN THEN <<>> ELSE PegRows(R, L, 0)

\* parseInt(binCapacityInput.value) || 100
CapacityOrDefault(capText) ==
    LET c == parseInt(capText) IN IF c = NaN \/ c = 0 THEN 100 ELSE c

\* initBins: i < numBins is false for NaN.
initBins(R, L, capText) ==
    IF R = NaN THEN <<>>
    ELSE
    LET numBins == R + 1
        binWidth == L.currentPegSpacingX
        lastPegRowCenterY ==
            L.currentStartYOffset + (R - 1) * L.currentPegSpacingY
        binsTopY == lastPegRowCenterY + L.currentPegRadius + L.currentSpaceBelowPegs
        totalBinsWidth == numBins * binWidth
        firstBinX == TruncDiv(L.width - totalBinsWidth, 2)
    IN  [i \in 1..numBins |->
            [x |-> firstBinX + (i - 1) * binWidth, y |-> binsTopY,
             width |-> binWidth, height |-> L.currentDrawnBinHeight,
             count |-> 0, maxCapacity |-> CapacityOrDefault(capText)]]

\* createBall; r is the Math.random() draw in thousandths.
createBall(L, pegList, r) ==
    [x |-> IF Len(pegList) > 0 THEN pegList[1].x ELSE TruncDiv(L.width, 2),
     y |-> L.currentStartYOffset - L.currentPegSpacingY,
     radius |-> L.currentBallRadius,
     vx |-> TruncDiv(r - 500, 2),
     vy |-> 0,
     landed |-> FALSE,
     isSettling |-> FALSE]

\* --------------------------------------------------------------- physics
\* The physics helpers work on w = [ball, bins, ballsBeingDropped]: the ball
\* being updated and the two globals a helper may change.

\* applyBallPhysics
applyBallPhysics(w, L) ==
    LET b == w.ball
        vy1 == b.vy + Times(GRAVITY, L.scaleFactor)
    IN  [w EXCEPT !.ball = [b EXCEPT !.vy = vy1, !.x = b.x + b.vx, !.y = b.y + vy1]]

\* handleBallWallCollisions, the left and right walls.
SideWalls(w, L) ==
    LET r == L.currentBallRadius
        x0 == w.ball.x
        x1 == IF x0 - r < 0 THEN r ELSE x0
    IN  IF x0 - r < 0 \/ x0 + r > L.width
        THEN [w EXCEPT !.ball.vx = Times(@, -500),
                       !.ball.x = IF x1 + r > L.width THEN L.width - r ELSE x1]
        ELSE w

\* A bottom wall that leaves a lost ball on the active-ball counter.
BottomWallKeepsCounter(w, L) ==
    IF /\ w.ball.y - L.currentBallRadius > L.height
       /\ ~w.ball.isSettling
       /\ ~w.ball.landed
    THEN [w EXCEPT !.ball.landed = TRUE]
    ELSE w

\* A bottom wall that takes the ball as soon as its bottom edge is past it.
BottomWallAtBottomEdge(w, L) ==
    IF /\ w.ball.y + L.currentBallRadius > L.height
       /\ ~w.ball.isSettling
       /\ ~w.ball.landed
    THEN [w EXCEPT !.ball.landed = TRUE, !.ballsBeingDropped = @ - 1]
    ELSE w

\* handleBallWallCollisions, the bottom: the ball is lost.
BottomWall(w, L) ==
    IF /\ w.ball.y - L.currentBallRadius > L.height
       /\ ~w.ball.isSettling
       /\ ~w.ball.landed
    THEN [w EXCEPT !.ball.landed = TRUE, !.ballsBeingDropped = @ - 1]
    ELSE w

\* handleBallWallCollisions, the top.
TopWall(w, L) ==
    IF w.ball.y - L.currentBallRadius < 0
    THEN [w EXCEPT !.ball.vy = Times(@, -BOUNCE_FACTOR),
                   !.ball.y = L.currentBallRadius]
    ELSE w

\* handleBallWallCollisions
handleBallWallCollisions(w, L) == TopWall(BottomWall(SideWalls(w, L), L), L)

\* distance < reach, for the centre offsets dx, dy
Within(dx, dy, reach) ==
    /\ Abs(dx) < reach
    /\ Abs(dy) < reach
    /\ dx * dx + dy * dy < reach * reach

\* A horizontal speed after a peg without the minimum.
AtLeastNothing(vx, minV) == vx

\* The horizontal speed after a peg: vx, or the minimum minV when vx is slower.
AtLeast(vx, minV) == IF Abs(vx) < Abs(minV) THEN minV ELSE vx

\* The body of the pegs.forEach of handleBallPegCollisions for one peg; rnd
\* holds the Math.random() draws of this tick for this ball (a ball is within
\* reach of at most one peg, and never of a peg and a bin, in one tick).
PegCollision(b, peg, L, rnd) ==
    LET reach == L.currentBallRadius + L.currentPegRadius
        side == IF b.x < peg.x THEN -1 ELSE 1
    IN  IF Within(b.x - peg.x, b.y - peg.y, reach)
        THEN [b EXCEPT !.y = peg.y - Times(reach * Sign(b.y - peg.y), 510),
                       !.vy = Times(b.vy, -BOUNCE_FACTOR),
                       !.vx = AtLeast(side * Times(Times(HORIZONTAL_BUMP, L.scaleFactor),
                                                   rnd.bump),
                                      side * Times(500, L.scaleFactor))]
        ELSE b

RECURSIVE PegLoop(_, _, _, _, _)
PegLoop(b, pegList, i, L, rnd) ==
    IF i > Len(pegList) THEN b
    ELSE PegLoop(PegCollision(b, pegList[i], L, rnd), pegList, i + 1, L, rnd)

\* handleBallPegCollisions: every peg in turn, no early exit.
handleBallPegCollisions(w, pegList, L, rnd) ==
    [w EXCEPT !.ball = PegLoop(w.ball, pegList, 1, L, rnd)]

\* A capture that forgets to count the ball.
SettleInBinNoCount(w, i, L) ==
    LET bin == w.bins[i] IN
    [w EXCEPT !.ball = [@ EXCEPT !.isSettling = TRUE, !.vx = 0, !.vy = 0,
                                 !.x = bin.x + TruncDiv(bin.width, 2),
                                 !.y = bin.y + bin.height - L.currentBallRadius - Px(1)],
              !.ballsBeingDropped = @ - 1]

\* A capture that leaves the ball its horizontal speed.
SettleInBinKeepsSpeed(w, i, L) ==
    LET bin == w.bins[i] IN
    [ball |-> [w.ball EXCEPT !.isSettling = TRUE, !.vy = 0,
                   !.x = bin.x + TruncDiv(bin.width, 2),
                   !.y = bin.y + bin.height - L.currentBallRadius - Px(1)],
     bins |-> [w.bins EXCEPT ![i].count = @ + 1],
     ballsBeingDropped |-> w.ballsBeingDropped - 1]

\* A capture that takes the ball off the active-ball counter twice.
SettleInBinDropsTwice(w, i, L) ==
    LET bin == w.bins[i] IN
    [ball |-> [w.ball EXCEPT !.isSettling = TRUE, !.vx = 0, !.vy = 0,
                   !.x = bin.x + TruncDiv(bin.width, 2),
                   !.y = bin.y + bin.height - L.currentBallRadius - Px(1)],
     bins |-> [w.bins EXCEPT ![i].count = @ + 1],
     ballsBeingDropped |-> w.ballsBeingDropped - 2]

\* The ball settles into bin i, which has room.
SettleInBin(w, i, L) ==
    LET bin == w.bins[i] IN
    [ball |-> [w.ball EXCEPT !.isSettling = TRUE, !.vx = 0, !.vy = 0,
                   !.x = bin.x + TruncDiv(bin.width, 2),
                   !.y = bin.y + bin.height - L.currentBallRadius - Px(1)],
     bins |-> [w.bins EXCEPT ![i].count = @ + 1],
     ballsBeingDropped |-> w.ballsBeingDropped - 1]

\* A bounce that nudges the ball whatever its horizontal speed.
BounceOffBinAlwaysNudges(w, i, L, rnd) ==
    LET bin == w.bins[i]
        b == w.ball
    IN  [w EXCEPT !.ball =
            [b EXCEPT !.vy = Times(b.vy, -(BOUNCE_FACTOR \div 2)),
                      !.y = bin.y - L.currentBallRadius - 100,
                      !.vx = (IF rnd.nudge < 500 THEN -1 ELSE 1)
                             * Times(200, L.scaleFactor)]]

\* The ball bounces off bin i, which is full.
BounceOffBin(w, i, L, rnd) ==
    LET bin == w.bins[i]
        b == w.ball
        stalled == Abs(b.vx) < Times(100, L.scaleFactor)
    IN  [w EXCEPT !.ball =
            [b EXCEPT !.vy = Times(b.vy, -(BOUNCE_FACTOR \div 2)),
                      !.y = bin.y - L.currentBallRadius - 100,
                      !.vx = IF stalled
                             THEN (IF rnd.nudge < 500 THEN -1 ELSE 1) * Times(200, L.scaleFactor)
                             ELSE @]]

\* A loop that goes on to the next bin when the one it found is full.
RECURSIVE BinLoopSkipsFull(_, _, _, _)
BinLoopSkipsFull(w, i, L, rnd) ==
    IF i > Len(w.bins) THEN w
    ELSE
    LET bin == w.bins[i]
        r == L.currentBallRadius
        ballOverlapsBinHorizontally ==
            w.ball.x + r > bin.x /\ w.ball.x - r < bin.x + bin.width
    IN  IF /\ ballOverlapsBinHorizontally
           /\ w.ball.y + r >= bin.y
           /\ bin.count < bin.maxCapacity
        THEN SettleInBin(w, i, L)
        ELSE BinLoopSkipsFull(w, i + 1, L, rnd)

\* The for loop of handleBallBinInteractions from bin i on: the first bin
\* the ball overlaps horizontally, with its bottom at or below the bin top.
RECURSIVE BinLoop(_, _, _, _)
BinLoop(w, i, L, rnd) ==
    IF i > Len(w.bins) THEN w
    ELSE
    LET bin == w.bins[i]
        r == L.currentBallRadius
        ballOverlapsBinHorizontally ==
            w.ball.x + r > bin.x /\ w.ball.x - r < bin.x + bin.width
    IN  IF ballOverlapsBinHorizontally /\ w.ball.y + r >= bin.y
        THEN IF bin.count < bin.maxCapacity
             THEN SettleInBin(w, i, L)
             ELSE BounceOffBin(w, i, L, rnd)
        ELSE BinLoop(w, i + 1, L, rnd)

\* handleBallBinInteractions
handleBallBinInteractions(w, L, rnd) ==
    IF Len(w.bins) = 0 \/ w.ball.isSettling \/ w.ball.landed THEN w
    ELSE
    LET bottomOfBall == w.ball.y + L.currentBallRadius
        topOfBins == w.bins[1].y
    IN  IF /\ bottomOfBall >= topOfBins
           /\ w.ball.y - L.currentBallRadius < topOfBins + L.currentDrawnBinHeight
        THEN BinLoop(w, 1, L, rnd)
        ELSE w

\* The body of the balls.forEach of updateBalls from the re-check of landed
\* on, after the walls.
AfterWalls(w, pegList, L, rnd) ==
    IF w.ball.landed THEN w
    ELSE handleBallBinInteractions(
             handleBallPegCollisions(w, pegList, L, rnd), L, rnd)

\* An update that finalizes a settling ball after one more physics step.
UpdateBallSettlingMoves(w, pegList, L, rnd) ==
    IF w.ball.landed THEN w
    ELSE IF w.ball.isSettling
    THEN [applyBallPhysics(w, L) EXCEPT !.ball.landed = TRUE]
    ELSE AfterWalls(handleBallWallCollisions(applyBallPhysics(w, L), L),
                    pegList, L, rnd)

\* An update that lets a settling ball fall again.
UpdateBallRevive(w, pegList, L, rnd) ==
    IF w.ball.landed THEN w
    ELSE IF w.ball.isSettling THEN [w EXCEPT !.ball.isSettling = FALSE]
    ELSE AfterWalls(handleBallWallCollisions(applyBallPhysics(w, L), L),
                    pegList, L, rnd)

\* The body of the balls.forEach of updateBalls for one ball.
UpdateBall(w, pegList, L, rnd) ==
    IF w.ball.landed THEN w
    ELSE IF w.ball.isSettling THEN [w EXCEPT !.ball.landed = TRUE]
    ELSE AfterWalls(handleBallWallCollisions(applyBallPhysics(w, L), L),
                    pegList, L, rnd)

\* Ball i of p with the globals its update may change.
BallOf(p, i) ==
    [ball |-> p.balls[i], bins |-> p.bins,
     ballsBeingDropped |-> p.ballsBeingDropped]

\* p after the update of ball i left w.
WithBall(p, i, w) ==
    [p EXCEPT !.balls[i] = w.ball, !.bins = w.bins,
              !.ballsBeingDropped = w.ballsBeingDropped]

\* The balls.forEach of updateBalls from ball i on; rnds[i] holds the
\* Math.random() draws for ball i.
RECURSIVE UpdateFrom(_, _, _)
UpdateFrom(p, i, rnds) ==
    IF i > Len(p.balls) THEN p
    ELSE UpdateFrom(WithBall(p, i, UpdateBall(BallOf(p, i), p.pegs, p.layout,
                                              rnds[i])),
                    i + 1, rnds)

\* updateBalls
updateBalls(p, rnds) == UpdateFrom(p, 1, rnds)

\* ---------------------------------------------------------------- state
VARIABLES
    numRowsInput,       \* text of the row-count input
    numBallsInput,      \* text of the ball-total input
    binCapacityInput,   \* text of the bin-capacity input
    innerWidth,         \* window.innerWidth, pixels
    NUM_ROWS,
    ballsToDropTotal,
    layout,             \* the scaled configuration and canvas.width/height
    pegs,
    balls,
    bins,
    animationFrameId,
    ballsBeingDropped,
    dropIntervalId,
    disabled,           \* the disabled flag of each control
    rafPending,         \* handles of the frame callbacks the browser holds
    intervals,          \* the repeating timers the browser holds, each with
                        \* the ballsDroppedThisSession of its closure
    canvas,             \* what has been drawn since the surface was last
                        \* cleared, in drawing order
    alertMsg,           \* the alert raised by the last operation, "" if none
    op,                 \* the last operation invoked
    wasRunning,         \* whether a frame was scheduled when it was invoked
    wasMidRunReset      \* whether the operation before it was a reset issued
                        \* while a frame was scheduled

vars == <<numRowsInput, numBallsInput, binCapacityInput, innerWidth, NUM_ROWS,
          ballsToDropTotal, layout, pegs, balls, bins, animationFrameId,
          ballsBeingDropped, dropIntervalId, disabled, rafPending, intervals,
          canvas, alertMsg, op, wasRunning, wasMidRunReset>>

\* The program's own state (what its functions read and write) as a record.
Cur ==
    [NUM_ROWS |-> NUM_ROWS, ballsToDropTotal |-> ballsToDropTotal,
     layout |-> layout, pegs |-> pegs, balls |-> balls, bins |-> bins,
     animationFrameId |-> animationFrameId,
     ballsBeingDropped |-> ballsBeingDropped,
     dropIntervalId |-> dropIntervalId, disabled |-> disabled,
     rafPending |-> rafPending, intervals |-> intervals, canvas |-> canvas]

Becomes(q) ==
    /\ NUM_ROWS' = q.NUM_ROWS
    /\ ballsToDropTotal' = q.ballsToDropTotal
    /\ layout' = q.layout
    /\ pegs' = q.pegs
    /\ balls' = q.balls
    /\ bins' = q.bins
    /\ animationFrameId' = q.animationFrameId
    /\ ballsBeingDropped' = q.ballsBeingDropped
    /\ dropIntervalId' = q.dropIntervalId
    /\ disabled' = q.disabled
    /\ rafPending' = q.rafPending
    /\ intervals' = q.intervals
    /\ canvas' = q.canvas

\* The program's state is q.
Is(q) ==
    /\ NUM_ROWS = q.NUM_ROWS
    /\ ballsToDropTotal = q.ballsToDropTotal
    /\ layout = q.layout
    /\ pegs = q.pegs
    /\ balls = q.balls
    /\ bins = q.bins
    /\ animationFrameId = q.animationFrameId
    /\ ballsBeingDropped = q.ballsBeingDropped
    /\ dropIntervalId = q.dropIntervalId
    /\ disabled = q.disabled
    /\ rafPending = q.rafPending
    /\ intervals = q.intervals
    /\ canvas = q.canvas

\* The operation called name leaves the program in res.p and raises the
\* alert res.alert ("" for none).
Outcome(res, name) ==
    /\ Becomes(res.p)
    /\ alertMsg' = res.alert
    /\ op' = name
    /\ wasRunning' = Truthy(animationFrameId)
    /\ wasMidRunReset' = (op = "reset" /\ wasRunning)

\* An operation that raises no alert.
Silent(q) == [p |-> q, alert |-> ""]

\* The smallest handle the browser does not hold.
FreshHandle(held) == CHOOSE n \in 1..(Cardinality(held) + 1) : n \notin held

IntervalIds(ivs) == {t.id : t \in ivs}

\* a < b on JavaScript numbers (false when either is NaN)
Less(a, b) == a # NaN /\ b # NaN /\ a < b

\* -------------------------------------------------------------- drawing
\* A circle or a bin drawn on the surface; n is the radius of a circle, the
\* count written above a bin.
Mark(shape, x, y, n) == [shape |-> shape, x |-> x, y |-> y, n |-> n]

PegMarks(pegList) ==
    [i \in 1..Len(pegList) |->
        Mark("peg", pegList[i].x, pegList[i].y, pegList[i].radius)]

BallMarks(active) ==
    [i \in 1..Len(active) |->
        Mark("ball", active[i].x, active[i].y, active[i].radius)]

BinMarks(binList) ==
    [i \in 1..Len(binList) |->
        Mark("bin", binList[i].x, binList[i].y, binList[i].count)]

\* drawBalls skips a ball that has landed or is settling.
IsDrawn(b) == ~(b.landed \/ b.isSettling)

\* ctx.clearRect over the whole surface
clearRect(p) == [p EXCEPT !.canvas = <<>>]

drawPegs(p) == [p EXCEPT !.canvas = @ \o PegMarks(p.pegs)]

drawBalls(p) == [p EXCEPT !.canvas = @ \o BallMarks(SelectSeq(p.balls, IsDrawn))]

drawBins(p) == [p EXCEPT !.canvas = @ \o BinMarks(p.bins)]

\* ------------------------------------------------------------- operations
\* A stop that cancels the frame but leaves the spawn timer running.
stopSimulationKeepsTimer(p) ==
    [p EXCEPT
        !.rafPending = @ \ {p.animationFrameId},
        !.animationFrameId = Null,
        !.disabled = [@ EXCEPT !.startButton = FALSE, !.numRowsInput = FALSE,
                               !.numBallsInput = FALSE, !.binCapacityInput = FALSE]]

\* A stop that forgets the frame it has asked for without cancelling it.
stopSimulationKeepsFrame(p) ==
    [p EXCEPT
        !.animationFrameId = Null,
        !.intervals = IF Truthy(p.dropIntervalId)
                      THEN {t \in @ : t.id # p.dropIntervalId} ELSE @,
        !.dropIntervalId = IF Truthy(p.dropIntervalId) THEN Null ELSE @,
        !.disabled = [@ EXCEPT !.startButton = FALSE, !.numRowsInput = FALSE,
                               !.numBallsInput = FALSE, !.binCapacityInput = FALSE]]

\* stopSimulation
stopSimulation(p) ==
    [p EXCEPT
        !.rafPending = @ \ {p.animationFrameId},
        !.animationFrameId = Null,
        !.intervals = IF Truthy(p.dropIntervalId)
                      THEN {t \in @ : t.id # p.dropIntervalId} ELSE @,
        !.dropIntervalId = IF Truthy(p.dropIntervalId) THEN Null ELSE @,
        !.disabled = [@ EXCEPT !.startButton = FALSE, !.numRowsInput = FALSE,
                               !.numBallsInput = FALSE, !.binCapacityInput = FALSE]]

\* The continuation test of gameLoop.
KeepsRunning(p) ==
    p.ballsBeingDropped > 0 \/ \E i \in 1..Len(p.balls) : ~p.balls[i].landed

\* animationFrameId = requestAnimationFrame(gameLoop)
RequestFrame(p, id) ==
    [p EXCEPT !.animationFrameId = id, !.rafPending = @ \cup {id}]

\* A game loop that asks for another frame whatever the balls do.
NextFrameForever(p) == RequestFrame(p, FreshHandle(p.rafPending))

\* The end of gameLoop: another frame, or the stop.
NextFrame(p) ==
    IF KeepsRunning(p) THEN RequestFrame(p, FreshHandle(p.rafPending))
    ELSE stopSimulation(p)

\* A game loop that draws the balls after it has moved them.
gameLoopDrawsAfterUpdate(p, rnds) ==
    NextFrame(drawBins(drawBalls(updateBalls(drawPegs(clearRect(p)), rnds))))

\* gameLoop
gameLoop(p, rnds) ==
    NextFrame(drawBins(updateBalls(drawBalls(drawPegs(clearRect(p))), rnds)))

\* A spawn callback that drops a ball at every firing.
tryDropBallUnlimited(p, id, rnd) ==
    LET t == CHOOSE t \in p.intervals : t.id = id IN
    [p EXCEPT
        !.balls = Append(@, createBall(p.layout, p.pegs, rnd)),
        !.ballsBeingDropped = @ + 1,
        !.intervals = (@ \ {t}) \cup
            {[t EXCEPT !.ballsDroppedThisSession = @ + 1]}]

\* tryDropBall, in the closure of the timer with handle id; rnd is the draw
\* of createBall.
tryDropBall(p, id, rnd) ==
    LET t == CHOOSE t \in p.intervals : t.id = id IN
    IF Less(t.ballsDroppedThisSession, p.ballsToDropTotal)
    THEN [p EXCEPT
            !.balls = Append(@, createBall(p.layout, p.pegs, rnd)),
            !.ballsBeingDropped = @ + 1,
            !.intervals = (@ \ {t}) \cup
                {[t EXCEPT !.ballsDroppedThisSession = @ + 1]}]
    ELSE [p EXCEPT
            !.intervals = {x \in @ : x.id # p.dropIntervalId},
            !.dropIntervalId = Null]

\* A validator that forgets the bin capacity.
validateInputsNoCapacity(numRows, numBalls, binCapacity) ==
    IF numRows = NaN \/ numRows < 1 \/ numRows > 30
    THEN "Number of rows must be between 1 and 30."
    ELSE IF numBalls = NaN \/ numBalls < 1 \/ numBalls > 5000
    THEN "Number of balls must be between 1 and 5000."
    ELSE ""

\* validateInputs: the alert it raises, "" when the inputs are valid.
validateInputs(numRows, numBalls, binCapacity) ==
    IF numRows = NaN \/ numRows < 1 \/ numRows > 30
    THEN "Number of rows must be between 1 and 30."
    ELSE IF numBalls = NaN \/ numBalls < 1 \/ numBalls > 5000
    THEN "Number of balls must be between 1 and 5000."
    ELSE IF binCapacity = NaN \/ binCapacity < 1 \/ binCapacity > 1000
    THEN "Bin capacity must be between 1 and 1000."
    ELSE ""

\* resizeCanvas(); initPegs(); initBins(): the board for R rows and the
\* layout L that resizeCanvas computed.
Board(p, R, L, capText) ==
    [p EXCEPT !.NUM_ROWS = R,
              !.layout = L,
              !.canvas = <<>>,
              !.pegs = initPegs(R, L),
              !.bins = initBins(R, L, capText)]

\* A reset that toggles the reset button instead of disabling it.
ResetBoardTogglesButton(p1, rowsText, capText, W) ==
    Board([p1 EXCEPT
              !.balls = <<>>,
              !.ballsBeingDropped = 0,
              !.ballsToDropTotal = 0,
              !.disabled = [startButton |-> FALSE, numRowsInput |-> FALSE,
                            numBallsInput |-> FALSE, binCapacityInput |-> FALSE,
                            resetButton |-> ~p1.disabled.resetButton]],
          parseInt(rowsText), resizeCanvas(parseInt(rowsText), W), capText)

\* resetSimulation after its call of stopSimulation, up to its drawing.
ResetBoard(p1, rowsText, capText, W) ==
    Board([p1 EXCEPT
              !.balls = <<>>,
              !.ballsBeingDropped = 0,
              !.ballsToDropTotal = 0,
              !.disabled = [startButton |-> FALSE, numRowsInput |-> FALSE,
                            numBallsInput |-> FALSE, binCapacityInput |-> FALSE,
                            resetButton |-> TRUE]],
          parseInt(rowsText), resizeCanvas(parseInt(rowsText), W), capText)

\* A reset that forgets to stop the running simulation.
resetSimulationNoStop(p, rowsText, capText, W) ==
    drawBins(drawPegs(clearRect(ResetBoard(p, rowsText, capText, W))))

\* resetSimulation
resetSimulation(p, rowsText, capText, W) ==
    drawBins(drawPegs(clearRect(ResetBoard(stopSimulation(p), rowsText,
                                           capText, W))))

\* dropIntervalId = setInterval(tryDropBall, 100), with the closure's
\* ballsDroppedThisSession = 0.
SetInterval(p, id) ==
    [p EXCEPT !.dropIntervalId = id,
              !.intervals = @ \cup {[id |-> id, ballsDroppedThisSession |-> 0]}]

\* A start that forgets to disable the row-count input.
StartedRowsEnabled(p, R, W, capText) ==
    SetInterval(Board([p EXCEPT
                          !.balls = <<>>,
                          !.ballsBeingDropped = 0,
                          !.disabled = [startButton |-> TRUE, numRowsInput |-> FALSE,
                                        numBallsInput |-> TRUE,
                                        binCapacityInput |-> TRUE,
                                        resetButton |-> FALSE]],
                      R, resizeCanvas(R, W), capText),
                FreshHandle(IntervalIds(p.intervals)))

\* A start that keeps the counts of the bins it finds.
StartedKeepsCounts(p, R, W, capText) ==
    SetInterval([Board([p EXCEPT
                          !.balls = <<>>,
                          !.ballsBeingDropped = 0,
                          !.disabled = [startButton |-> TRUE, numRowsInput |-> TRUE,
                                        numBallsInput |-> TRUE,
                                        binCapacityInput |-> TRUE,
                                        resetButton |-> FALSE]],
                      R, resizeCanvas(R, W), capText)
                    EXCEPT !.bins = IF Len(@) = Len(p.bins) THEN p.bins ELSE @],
                FreshHandle(IntervalIds(p.intervals)))

\* startSimulation once the inputs are valid: the state before the first
\* tryDropBall (the closure of tryDropBall exists from its declaration).
Started(p, R, W, capText) ==
    SetInterval(Board([p EXCEPT
                          !.balls = <<>>,
                          !.ballsBeingDropped = 0,
                          !.disabled = [startButton |-> TRUE, numRowsInput |-> TRUE,
                                        numBallsInput |-> TRUE,
                                        binCapacityInput |-> TRUE,
                                        resetButton |-> FALSE]],
                      R, resizeCanvas(R, W), capText),
                FreshHandle(IntervalIds(p.intervals)))

\* startSimulation from its validation on, for the parsed inputs.
Validated(p1, R, W, capText, r, rnds, msg) ==
    IF msg # "" THEN [p |-> p1, alert |-> msg]
    ELSE [p |-> gameLoop(tryDropBall(Started(p1, R, W, capText),
                                     FreshHandle(IntervalIds(p1.intervals)), r),
                         rnds),
          alert |-> ""]

\* startSimulation after its guard; r is the draw of the first createBall,
\* rnds the draws of the first gameLoop.  Result: [p, alert].
StartRun(p, rowsText, ballsText, capText, W, r, rnds) ==
    Validated([p EXCEPT !.NUM_ROWS = parseInt(rowsText),
                        !.ballsToDropTotal = parseInt(ballsText)],
              parseInt(rowsText), W, capText, r, rnds,
              validateInputs(parseInt(rowsText), parseInt(ballsText),
                             parseInt(capText)))

\* A start without the guard against a running simulation.
startSimulationNoGuard(p, rowsText, ballsText, capText, W, r, rnds) ==
    StartRun(p, rowsText, ballsText, capText, W, r, rnds)

\* startSimulation
startSimulation(p, rowsText, ballsText, capText, W, r, rnds) ==
    IF Truthy(p.animationFrameId) THEN [p |-> p, alert |-> ""]
    ELSE StartRun(p, rowsText, ballsText, capText, W, r, rnds)

\* The state the declarations of the script give, before its first call.
Declared(rowsText) ==
    [NUM_ROWS |-> parseInt(rowsText), ballsToDropTotal |-> 0,
     layout |-> [currentPegSpacingX |-> Px(BASE_PEG_SPACING_X), scaleFactor |-> 1000,
                 currentPegSpacingY |-> Px(BASE_PEG_SPACING_Y),
                 currentStartYOffset |-> Px(BASE_START_Y_OFFSET),
                 currentPegRadius |-> Px(BASE_PEG_RADIUS),
                 currentBallRadius |-> Px(BASE_BALL_RADIUS),
                 currentDrawnBinHeight |-> Px(BASE_DRAWN_BIN_HEIGHT),
                 currentSpaceBelowPegs |-> Px(BASE_SPACE_BELOW_PEGS),
                 currentBottomPadding |-> Px(BASE_BOTTOM_PADDING),
                 width |-> Px(300), height |-> Px(150)],
     pegs |-> <<>>, balls |-> <<>>, bins |-> <<>>,
     animationFrameId |-> Undefined, ballsBeingDropped |-> 0,
     dropIntervalId |-> Undefined,
     disabled |-> [startButton |-> FALSE, numRowsInput |-> FALSE,
                   numBallsInput |-> FALSE, binCapacityInput |-> FALSE,
                   resetButton |-> FALSE],
     rafPending |-> {}, intervals |-> {}, canvas |-> <<>>]

\* ---------------------------------------------------------------- actions
\* The page has loaded: the listener has run to its last line, the initial
\* resetSimulation().
Init ==
    /\ numRowsInput \in RowTexts
    /\ numBallsInput \in BallTexts
    /\ binCapacityInput \in CapTexts
    /\ innerWidth \in Widths
    /\ Is(resetSimulation(Declared(numRowsInput), numRowsInput,
                          binCapacityInput, innerWidth))
    /\ alertMsg = ""
    /\ op = "load"
    /\ wasRunning = FALSE
    /\ wasMidRunReset = FALSE

Inputs == <<numRowsInput, numBallsInput, binCapacityInput, innerWidth>>

\* start(): a click on the start button, or the call the glue layer makes.
Start ==
    \E r \in JitterDraws : \E rnds \in [1..1 -> Draws] :
        /\ Outcome(startSimulation(Cur, numRowsInput, numBallsInput,
                                   binCapacityInput, innerWidth, r, rnds),
                   "start")
        /\ UNCHANGED Inputs

\* reset(): a click on the reset button, or the call the glue layer makes.
Reset ==
    /\ Outcome(Silent(resetSimulation(Cur, numRowsInput, binCapacityInput,
                                      innerWidth)),
               "reset")
    /\ UNCHANGED Inputs

\* The browser runs a pending frame callback.
Frame ==
    \E id \in rafPending : \E rnds \in [1..Len(balls) -> Draws] :
        /\ Outcome(Silent(gameLoop([Cur EXCEPT !.rafPending = @ \ {id}], rnds)),
                   "frame")
        /\ UNCHANGED Inputs

\* The browser fires a repeating spawn timer.
SpawnTimer ==
    \E t \in intervals : \E r \in JitterDraws :
        /\ Outcome(Silent(tryDropBall(Cur, t.id, r)), "spawn")
        /\ UNCHANGED Inputs

\* A listener that resets whether or not a run is active.
ResetAlways(p, rowsText, capText, W) == resetSimulation(p, rowsText, capText, W)

\* The listeners of the change and resize events.
ResetIfIdle(p, rowsText, capText, W) ==
    IF ~Truthy(p.animationFrameId) THEN resetSimulation(p, rowsText, capText, W)
    ELSE p

\* The change listener of the row-count input, for the new text.
RowsChangeTo(text) ==
    /\ ~disabled.numRowsInput
    /\ numRowsInput' = text
    /\ Outcome(Silent(ResetIfIdle([Cur EXCEPT !.NUM_ROWS = parseInt(text)],
                                  text, binCapacityInput, innerWidth)),
               "rows")
    /\ UNCHANGED <<numBallsInput, binCapacityInput, innerWidth>>

\* The user edits the row count (the input is enabled).
RowsChange == \E text \in RowTexts \ {numRowsInput} : RowsChangeTo(text)

\* The user edits the ball total: the listener does nothing.
BallsChange ==
    \E text \in BallTexts \ {numBallsInput} :
        /\ ~disabled.numBallsInput
        /\ numBallsInput' = text
        /\ Outcome(Silent(Cur), "ballsInput")
        /\ UNCHANGED <<numRowsInput, binCapacityInput, innerWidth>>

\* The user edits the bin capacity.
CapChange ==
    \E text \in CapTexts \ {binCapacityInput} :
        /\ ~disabled.binCapacityInput
        /\ binCapacityInput' = text
        /\ Outcome(Silent(ResetIfIdle(Cur, numRowsInput, text, innerWidth)),
                   "capacity")
        /\ UNCHANGED <<numRowsInput, numBallsInput, innerWidth>>

\* The resize listener, for the new viewport width.
ResizeTo(W) ==
    /\ innerWidth' = W
    /\ Outcome(Silent(ResetIfIdle(Cur, numRowsInput, binCapacityInput, W)),
               "resize")
    /\ UNCHANGED <<numRowsInput, numBallsInput, binCapacityInput>>

\* The window is resized.
Resize == \E W \in Widths \ {innerWidth} : ResizeTo(W)

Next ==
    \/ Start
    \/ Reset
    \/ Frame
    \/ SpawnTimer
    \/ RowsChange
    \/ BallsChange
    \/ CapChange
    \/ Resize

Spec == Init /\ [][Next]_vars

\* ------------------------------------------------- the board of every size
\* The idle page with every row count of the interface and a range of
\* viewport widths: the board is rebuilt by the listeners, no run is started.
MaxBoardRows == 30

\* The decimal text of n < 100.
RowText(n) == IF n < 10 THEN <<n>> ELSE <<n \div 10, n % 10>>

BoardRowTexts == {RowText(n) : n \in 0..MaxBoardRows}

\* Narrow enough for the minimum spacing to bind from 2 rows on, from 18 rows
\* on, wide enough for it never to bind, and wider than every board.
BoardWidths == {110, 400, 1000, 1500}

BoardInit ==
    /\ numRowsInput \in BoardRowTexts
    /\ numBallsInput = <<1>>
    /\ binCapacityInput = <<1>>
    /\ innerWidth \in BoardWidths
    /\ Is(resetSimulation(Declared(numRowsInput), numRowsInput,
                          binCapacityInput, innerWidth))
    /\ alertMsg = ""
    /\ op = "load"
    /\ wasRunning = FALSE
    /\ wasMidRunReset = FALSE

BoardRows == \E text \in BoardRowTexts \ {numRowsInput} : RowsChangeTo(text)

BoardResize == \E W \in BoardWidths \ {innerWidth} : ResizeTo(W)

BoardNext ==
    \/ BoardRows
    \/ BoardResize

BoardSpec == BoardInit /\ [][BoardNext]_vars

\* ------------------------------------------------- one tick at the bins
\* A run on the unscaled two-row board, caught in the tick in which its one
\* falling ball comes down on the bins: the balls that landed before rest in
\* their bins, more balls are still to be spawned, and the next frame is
\* scheduled.  The specification takes that one frame.
MaxBinCap == 2

\* Where the falling ball is, from the left edge of the middle bin (a bin is
\* 40 px wide, the ball 10 px): over the gap left of the bins, inside the
\* first bin, across the first and the middle bin, inside the middle bin,
\* across the middle and the last bin.
ArrivalXs == {Px(-50), Px(-20), Px(3), Px(20), Px(37)}

\* Its horizontal speed: as a peg leaves it, and below the stall threshold.
ArrivalVxs == {-1500, -500, -50, 50, 500}

\* Its bottom edge above the bin tops, and its vertical speed: too far to
\* reach the bins in the tick, reaching them, and hardly moving on them.
ArrivalYs == {[gap |-> Px(10), vy |-> 2000], [gap |-> Px(1), vy |-> 3000],
              [gap |-> 0, vy |-> 100]}

\* A ball at rest in a bin, as handleBallBinInteractions and the next
\* updateBalls leave it.
RestingBall(bin, L) ==
    [x |-> bin.x + TruncDiv(bin.width, 2),
     y |-> bin.y + bin.height - L.currentBallRadius - Px(1),
     radius |-> L.currentBallRadius, vx |-> 0, vy |-> 0,
     landed |-> TRUE, isSettling |-> TRUE]

\* The balls at rest in the bins from bin i on, counts[i] of them in bin i.
RECURSIVE RestingFrom(_, _, _, _)
RestingFrom(binList, counts, i, L) ==
    IF i > Len(binList) THEN <<>>
    ELSE [k \in 1..counts[i] |-> RestingBall(binList[i], L)]
         \o RestingFrom(binList, counts, i + 1, L)

\* The falling ball, from createBall, at its drawn place and speed.
ArrivingBall(p, dx, vx, fall) ==
    [createBall(p.layout, p.pegs, 0) EXCEPT
        !.x = p.bins[2].x + dx,
        !.y = p.bins[2].y - p.layout.currentBallRadius - fall.gap,
        !.vx = vx,
        !.vy = fall.vy]

\* The run p, just started, once the balls in resting have been spawned and
\* have landed and ball has been spawned last.
AtTheBins(p, counts, resting, ball) ==
    [p EXCEPT
        !.bins = [i \in 1..Len(@) |-> [@[i] EXCEPT !.count = counts[i]]],
        !.balls = resting \o <<ball>>,
        !.ballsBeingDropped = 1,
        !.intervals = {[id |-> p.dropIntervalId,
                        ballsDroppedThisSession |-> Len(resting) + 1]},
        !.animationFrameId = 1,
        !.rafPending = {1}]

\* The run on the two-row board with counts[i] balls in bin i.
DrawnRun(p, counts, dx, vx, fall) ==
    drawBins(drawPegs(AtTheBins(p, counts,
                                RestingFrom(p.bins, counts, 1, p.layout),
                                ArrivingBall(p, dx, vx, fall))))

BinInit ==
    /\ numRowsInput = <<2>>
    /\ numBallsInput = <<9>>
    /\ binCapacityInput \in {<<c>> : c \in 1..MaxBinCap}
    /\ innerWidth = 1000
    /\ \E counts \in [1..3 -> 0..parseInt(binCapacityInput)] :
       \E dx \in ArrivalXs : \E vx \in ArrivalVxs : \E fall \in ArrivalYs :
          Is(DrawnRun(Started([Declared(numRowsInput) EXCEPT
                                  !.ballsToDropTotal = parseInt(numBallsInput)],
                              parseInt(numRowsInput), innerWidth,
                              binCapacityInput),
                      counts, dx, vx, fall))
    /\ alertMsg = ""
    /\ op = "drawn"
    /\ wasRunning = TRUE
    /\ wasMidRunReset = FALSE

\* The frame of that tick.
BinTick == op = "drawn" /\ Frame

BinNext == BinTick

BinSpec == BinInit /\ [][BinNext]_vars

\* ------------------------------------------------- one tick at the pegs
\* Drawn states of a run on the two-row board, at either scale: one ball in
\* flight near a peg, and the frame of the next tick.

\* The viewport widths: the board scaled down (by 0.45), and unscaled.
PegWidths == {110, 1000}

\* Where the ball is before the tick, from the centre of the peg, in
\* hundredths of the reach (ball radius + peg radius).
PegXs == {-120, -60, -1, 0, 60}
PegYs == {-150, -100, -40, 30}

\* Its velocity before the tick, in thousandths of scaleFactor.
PegVxs == {-1000, 0, 500}
PegVys == {500, 3000}

\* Math.random() of the bump, in thousandths: 1.5 * 0.333 is below the
\* minimum of 0.5, 1.5 * 0.334 above it.
PegBumpDraws == {0, 333, 334, 999}

PegDraws == [bump : PegBumpDraws, nudge : {0}]

\* A ball in flight at the offset (dx, dy) from peg k.
BallAtPeg(p, k, dx, dy, vx, vy) ==
    [createBall(p.layout, p.pegs, 0) EXCEPT
        !.x = p.pegs[k].x
                + TruncDiv((p.layout.currentBallRadius + p.layout.currentPegRadius) * dx, 100),
        !.y = p.pegs[k].y
                + TruncDiv((p.layout.currentBallRadius + p.layout.currentPegRadius) * dy, 100),
        !.vx = Times(vx, p.layout.scaleFactor),
        !.vy = Times(vy, p.layout.scaleFactor)]

\* The run p, just started, with its first ball at that place.
AtThePegs(p, k, dx, dy, vx, vy) ==
    drawBins(drawPegs(AtTheBins(p, [i \in 1..Len(p.bins) |-> 0], <<>>,
                                BallAtPeg(p, k, dx, dy, vx, vy))))

PegInit ==
    /\ numRowsInput = <<2>>
    /\ numBallsInput = <<9>>
    /\ binCapacityInput = <<1>>
    /\ innerWidth \in PegWidths
    /\ \E k \in 1..3 : \E dx \in PegXs : \E dy \in PegYs :
       \E vx \in PegVxs : \E vy \in PegVys :
          Is(AtThePegs(Started([Declared(numRowsInput) EXCEPT
                                   !.ballsToDropTotal = parseInt(numBallsInput)],
                               parseInt(numRowsInput), innerWidth,
                               binCapacityInput),
                       k, dx, dy, vx, vy))
    /\ alertMsg = ""
    /\ op = "drawn"
    /\ wasRunning = TRUE
    /\ wasMidRunReset = FALSE

\* The frame of that tick, with any draw of the bump.
PegTick ==
    /\ op = "drawn"
    /\ \E id \in rafPending : \E rnds \in [1..Len(balls) -> PegDraws] :
          /\ Outcome(Silent(gameLoop([Cur EXCEPT !.rafPending = @ \ {id}], rnds)),
                     "frame")
          /\ UNCHANGED Inputs

PegNext == PegTick

PegSpec == PegInit /\ [][PegNext]_vars

\* ------------------------------------------- runs that are left to finish
\* The ball total of these runs; the one-row board with bins of capacity
\* one holds two balls.
MaxLiveBalls == 3

\* Math.random() of the createBall of a spawn-timer firing in these runs:
\* the balls after the first enter on the right of the centre.
LiveJitterDraws == {999}

LiveInit ==
    /\ numRowsInput = <<1>>
    /\ numBallsInput = <<MaxLiveBalls>>
    /\ binCapacityInput = <<1>>
    /\ innerWidth = 110
    /\ Is(resetSimulation(Declared(numRowsInput), numRowsInput,
                          binCapacityInput, innerWidth))
    /\ alertMsg = ""
    /\ op = "load"
    /\ wasRunning = FALSE
    /\ wasMidRunReset = FALSE

\* The start button is clicked while it is enabled.
LiveStart == ~disabled.startButton /\ Start

\* The browser fires the spawn timer.
LiveSpawn ==
    \E t \in intervals : \E r \in LiveJitterDraws :
        /\ Outcome(Silent(tryDropBall(Cur, t.id, r)), "spawn")
        /\ UNCHANGED Inputs

LiveNext ==
    \/ LiveStart
    \/ Frame
    \/ LiveSpawn

\* ENABLED <<Frame>>_vars: a frame callback is pending and running it
\* changes the state.
FrameEnabled ==
    \E id \in rafPending : \E rnds \in [1..Len(balls) -> Draws] :
        <<gameLoop([Cur EXCEPT !.rafPending = @ \ {id}], rnds), "", "frame",
          Truthy(animationFrameId), op = "reset" /\ wasRunning>>
            # <<Cur, alertMsg, op, wasRunning, wasMidRunReset>>

\* ENABLED <<LiveSpawn>>_vars
SpawnEnabled ==
    \E t \in intervals : \E r \in LiveJitterDraws :
        <<tryDropBall(Cur, t.id, r), "", "spawn",
          Truthy(animationFrameId), op = "reset" /\ wasRunning>>
            # <<Cur, alertMsg, op, wasRunning, wasMidRunReset>>

\* The browser runs every callback it holds, again and again: weak fairness
\* of Frame and of LiveSpawn, with ENABLED written out as the two state
\* predicates above.
LiveSpec ==
    /\ LiveInit
    /\ [][LiveNext]_vars
    /\ ([]<>(~FrameEnabled) \/ []<><<Frame>>_vars)
    /\ ([]<>(~SpawnEnabled) \/ []<><<LiveSpawn>>_vars)

\* ------------------------------------------------------------ properties
Falling(b) == ~b.landed /\ ~b.isSettling

Settling(b) == b.isSettling /\ ~b.landed

\* Landed without having been captured by a bin: fell past the bottom.
Lost(b) == b.landed /\ ~b.isSettling

RECURSIVE SumCountsFrom(_, _)
SumCountsFrom(binList, i) ==
    IF i > Len(binList) THEN 0 ELSE binList[i].count + SumCountsFrom(binList, i + 1)

SumCounts == SumCountsFrom(bins, 1)

NumLost == Cardinality({i \in 1..Len(balls) : Lost(balls[i])})

NumFalling == Cardinality({i \in 1..Len(balls) : Falling(balls[i])})

Running == Truthy(animationFrameId)

\* Nothing is scheduled and both handles are cleared.
Stopped ==
    /\ ~Truthy(animationFrameId)
    /\ ~Truthy(dropIntervalId)
    /\ rafPending = {}
    /\ intervals = {}

InRange(n, lo, hi) == n # NaN /\ lo <= n /\ n <= hi

\* The three inputs are in the ranges of the interface.
ValidInputs ==
    /\ InRange(parseInt(numRowsInput), 1, 30)
    /\ InRange(parseInt(numBallsInput), 1, 5000)
    /\ InRange(parseInt(binCapacityInput), 1, 1000)

progVars == <<canvas, NUM_ROWS, ballsToDropTotal, layout, pegs, balls, bins,
              animationFrameId, ballsBeingDropped, dropIntervalId, disabled,
              rafPending, intervals>>

\* C1 as stated: after every frame and every spawn, the bin counts plus the
\* balls that fell off the board add up to the balls spawned so far.
C1_Original ==
    op \in {"frame", "spawn"} => SumCounts + NumLost = Len(balls)

\* C1 as amended: in every state the bin counts, the balls that fell off the
\* board and the balls still falling add up to the balls spawned so far (the
\* length of the ball list, which is the spawn count of the running timer).
C1_Conservation ==
    /\ SumCounts + NumLost + NumFalling = Len(balls)
    /\ \A t \in intervals : t.ballsDroppedThisSession = Len(balls)

\* A frame has left one ball counted in a bin and one ball lost.
C1_Witness == op = "frame" /\ SumCounts = 1 /\ NumLost = 1

\* C2: the count of a bin never exceeds its maxCapacity.
C2_Claim == \A i \in 1..Len(bins) : bins[i].count <= bins[i].maxCapacity

\* C3: a ball is created falling and its lifecycle only moves falling ->
\* settling -> landed or falling -> landed; a step that rebuilds the list
\* (start, reset) leaves only falling balls.
LifecycleMove(b, c) ==
    \/ Falling(b) /\ (Falling(c) \/ Settling(c) \/ c.landed)
    \/ Settling(b) /\ (Settling(c) \/ (c.landed /\ c.isSettling))
    \/ b.landed /\ c.landed /\ c.isSettling = b.isSettling

C3_Lifecycle ==
    [][IF op' \in {"frame", "spawn"}
       THEN /\ Len(balls') >= Len(balls)
            /\ \A i \in 1..Len(balls) : LifecycleMove(balls[i], balls'[i])
            /\ \A i \in (Len(balls) + 1)..Len(balls') : Falling(balls'[i])
       ELSE balls' = balls \/ \A i \in 1..Len(balls') : Falling(balls'[i])]_vars

\* One ball went falling -> settling -> landed, another falling -> landed.
C3_Witness ==
    /\ \E i \in 1..Len(balls) : balls[i].landed /\ balls[i].isSettling
    /\ \E i \in 1..Len(balls) : Lost(balls[i])

\* C4: when the frame loop stops by itself, the bin counts plus the lost
\* balls equal the requested total and no bin is above its capacity.
C4_Claim ==
    (op = "frame" /\ ~Running) =>
        /\ SumCounts + NumLost = ballsToDropTotal
        /\ \A i \in 1..Len(bins) : bins[i].count <= bins[i].maxCapacity

\* C5: a frame schedules the next one whenever balls remain to be spawned by
\* the active spawn timer or some ball is not landed.
C5_Claim ==
    [][(/\ op' = "frame"
        /\ \/ \E t \in intervals : Less(t.ballsDroppedThisSession, ballsToDropTotal)
           \/ \E i \in 1..Len(balls') : ~balls'[i].landed)
       => (Truthy(animationFrameId') /\ rafPending' # {})]_vars

\* C6: a reset, and a frame that ends the run, leave no frame callback and no
\* spawn timer behind; and from a stopped state nothing but a successful
\* start spawns a ball, moves a ball or raises a bin count.
C6_StopCancelsBoth ==
    [][/\ (op' = "reset" \/ (op' = "frame" /\ ~Truthy(animationFrameId')))
            => Stopped'
       /\ (Stopped /\ ~(op' = "start" /\ alertMsg' = ""))
            => /\ Stopped'
               /\ balls' = balls \/ balls' = <<>>
               /\ bins' = bins \/ \A i \in 1..Len(bins') : bins'[i].count = 0
               /\ ballsBeingDropped' \in {ballsBeingDropped, 0}]_vars

\* A reset has been issued in the middle of a run.
C6_Witness == op = "reset" /\ wasRunning /\ Stopped

C8_Claim ==
    [][(op' = "start" /\ alertMsg' # "") => UNCHANGED progVars]_vars

\* C9: a start invoked while a run is active changes nothing and raises no
\* alert.
C9_StartWhileRunning ==
    [][(op' = "start" /\ Running) =>
         (UNCHANGED progVars /\ UNCHANGED Inputs /\ alertMsg' = "")]_vars

\* A start has been invoked during a run with a ball in flight.
C9_Witness ==
    op = "start" /\ wasRunning /\ Running /\ NumFalling >= 1 /\ intervals # {}

\* C10: right after a reset the session is idle, nothing is scheduled, there
\* is no ball, both counters are 0, the layout, pegs and bins are the ones of
\* the current inputs with every count 0, and the inputs and the start button
\* are enabled.
C10_AfterReset ==
    op = "reset" =>
        /\ Stopped
        /\ balls = <<>>
        /\ ballsBeingDropped = 0
        /\ ballsToDropTotal = 0
        /\ NUM_ROWS = parseInt(numRowsInput)
        /\ layout = resizeCanvas(NUM_ROWS, innerWidth)
        /\ pegs = initPegs(NUM_ROWS, layout)
        /\ Len(bins) = (IF NUM_ROWS = NaN \/ NUM_ROWS < 0 THEN 0 ELSE NUM_ROWS + 1)
        /\ \A i \in 1..Len(bins) :
              /\ bins[i].count = 0
              /\ bins[i].maxCapacity = CapacityOrDefault(binCapacityInput)
              /\ bins[i].width = layout.currentPegSpacingX
        /\ ~disabled.startButton /\ ~disabled.numRowsInput
        /\ ~disabled.numBallsInput /\ ~disabled.binCapacityInput

\* A reset has been issued in the middle of a run on a one-row board.
C10_Witness ==
    op = "reset" /\ wasRunning /\ balls = <<>> /\ Len(bins) = 2

\* C11: a reset invoked right after a reset, the inputs and the viewport
\* width being the same, changes nothing of the program's state and raises
\* no alert.
C11_ResetIdempotent ==
    [][(op = "reset" /\ op' = "reset" /\ UNCHANGED Inputs) =>
         (UNCHANGED progVars /\ alertMsg' = "")]_vars

\* A second reset has followed a reset issued in the middle of a run.
C11_Witness == op = "reset" /\ wasMidRunReset /\ ~wasRunning /\ Stopped

\* C12: with a bin-capacity text that holds no number, a reset rebuilds the
\* bins and a start from idle (rows and balls in range) begins a run, and
\* either way every bin has maxCapacity 100.
C12_Claim ==
    [][(/\ parseInt(binCapacityInput) = NaN
        /\ \/ op' = "reset"
           \/ /\ op' = "start"
              /\ ~Running
              /\ InRange(parseInt(numRowsInput), 1, 30)
              /\ InRange(parseInt(numBallsInput), 1, 5000))
       => /\ alertMsg' = ""
          /\ op' = "start" =>
                (Truthy(animationFrameId') /\ Len(bins') = parseInt(numRowsInput) + 1)
          /\ \A i \in 1..Len(bins') : bins'[i].maxCapacity = 100]_vars

\* The three parameter inputs and the start button.
RunControls == {"startButton", "numRowsInput", "numBallsInput", "binCapacityInput"}

\* C13: in every state between callbacks each of the three parameter inputs
\* and the start button is disabled exactly when a frame is scheduled.
C13_DisabledIffRunning == \A c \in RunControls : disabled[c] = Running

\* A run has completed by itself and the controls are enabled again.
C13_Witness ==
    /\ op = "frame"
    /\ wasRunning
    /\ ~Running
    /\ \A c \in RunControls : ~disabled[c]

\* The pegs of row r: those at the height of that row.
PegsOfRow(r) ==
    {k \in 1..Len(pegs) :
        pegs[k].y = layout.currentStartYOffset + r * layout.currentPegSpacingY}

\* C14: a board built for a row count R in 1..30 has R*(R+1)/2 pegs, r+1 of
\* them in row r for every r in 0..R-1, and R+1 bins, each with count 0.
C14_BoardCounts ==
    (op \in {"load", "rows", "resize"} /\ InRange(NUM_ROWS, 1, 30)) =>
        /\ 2 * Len(pegs) = NUM_ROWS * (NUM_ROWS + 1)
        /\ \A r \in 0..(NUM_ROWS - 1) : Cardinality(PegsOfRow(r)) = r + 1
        /\ Len(bins) = NUM_ROWS + 1
        /\ \A i \in 1..Len(bins) : bins[i].count = 0

\* The board of 30 rows has been built after a change of the row count.
C14_Witness ==
    op = "rows" /\ NUM_ROWS = 30 /\ Len(pegs) = 465 /\ Len(bins) = 31

Min(a, b) == IF a < b THEN a ELSE b

Max(a, b) == IF a > b THEN a ELSE b

\* The width available to the canvas, in thousandths of a pixel.
Available == Px(innerWidth - CANVAS_MARGIN_LEFT - CANVAS_MARGIN_RIGHT)

\* min(W, (R + 3.5) * basePitch) for the current row count, in thousandths.
FittingWidth ==
    Min(Available, TruncDiv((2 * NUM_ROWS + 7) * Px(BASE_PEG_SPACING_X), 2))

\* max(3 * basePegRadius, min(W, (R + 3.5) * basePitch) / (R + 3.5))
Pitch ==
    Max(Px(3 * BASE_PEG_RADIUS), TruncDiv(2 * FittingWidth, 2 * NUM_ROWS + 7))

\* startY + (R - 1) * verticalPitch + pegRadius + spacing + binHeight +
\* bottomPadding, in thousandths.
HeightSum ==
    layout.currentStartYOffset + (NUM_ROWS - 1) * layout.currentPegSpacingY
    + layout.currentPegRadius + layout.currentSpaceBelowPegs
    + layout.currentDrawnBinHeight + layout.currentBottomPadding

\* The layout of a board just built, apart from the surface height: the
\* pitch, the width (R + 3.5) * pitch (to the last place the pitch is kept
\* to), above the available width when the minimum pitch binds, the scale
\* factor and the dimensions scaled by it.
PitchWidthAndScale ==
    /\ layout.currentPegSpacingX = Pitch
    /\ Abs(2 * layout.width - (2 * NUM_ROWS + 7) * Pitch) <= 2 * NUM_ROWS + 7
    /\ TruncDiv(2 * FittingWidth, 2 * NUM_ROWS + 7) < Px(3 * BASE_PEG_RADIUS)
          => (2 * layout.width = (2 * NUM_ROWS + 7) * Pitch /\ layout.width > Available)
    /\ layout.scaleFactor = TruncDiv(Pitch, BASE_PEG_SPACING_X)
    /\ layout.currentPegSpacingY = BASE_PEG_SPACING_Y * layout.scaleFactor
    /\ layout.currentStartYOffset = BASE_START_Y_OFFSET * layout.scaleFactor
    /\ layout.currentPegRadius = BASE_PEG_RADIUS * layout.scaleFactor
    /\ layout.currentBallRadius = BASE_BALL_RADIUS * layout.scaleFactor
    /\ layout.currentDrawnBinHeight = BASE_DRAWN_BIN_HEIGHT * layout.scaleFactor
    /\ layout.currentSpaceBelowPegs = BASE_SPACE_BELOW_PEGS * layout.scaleFactor
    /\ layout.currentBottomPadding = BASE_BOTTOM_PADDING * layout.scaleFactor

\* C15 as stated: for every row count and width the pitch, width, scale
\* factor and scaled dimensions are the ones of the formulas, and the surface
\* height equals the sum of the vertical parts.
C15_Original ==
    InRange(NUM_ROWS, 0, 30) => (PitchWidthAndScale /\ layout.height = HeightSum)

\* C15 as amended: the same, with the surface height equal to the sum of the
\* vertical parts cut down to a whole number of pixels.
C15_Geometry ==
    InRange(NUM_ROWS, 0, 30) =>
        /\ PitchWidthAndScale
        /\ layout.height = Px(HeightSum \div 1000)
        /\ HeightSum - layout.height \in 0..999

\* A layout whose minimum pitch binds, and whose vertical parts do not add up
\* to a whole number of pixels, has been computed for 30 rows.
C15_Witness ==
    /\ NUM_ROWS = 30
    /\ layout.currentPegSpacingX = Px(3 * BASE_PEG_RADIUS)
    /\ layout.width > Available
    /\ layout.height < HeightSum

\* The balls captured by a bin, and the balls lost, in the step.
CapturedNow == {i \in 1..Len(balls) : Falling(balls[i]) /\ balls'[i].isSettling}

LostNow == {i \in 1..Len(balls) : Falling(balls[i]) /\ Lost(balls'[i])}

\* C16: a frame finalizes every settling ball to landed and changes nothing
\* else of a settling or landed ball, a spawn changes nothing of it; and in a
\* frame the bin counts and the active-ball counter change only by the balls
\* that were falling (one count up and one ball less per capture, one ball
\* less per loss).
C16_SettledStaysPut ==
    [][(op' \in {"frame", "spawn"}) =>
         /\ Len(balls') >= Len(balls)
         /\ \A i \in 1..Len(balls) :
               (balls[i].isSettling \/ balls[i].landed) =>
                   balls'[i] = IF op' = "frame"
                               THEN [balls[i] EXCEPT !.landed = TRUE]
                               ELSE balls[i]
         /\ op' = "frame" =>
               /\ SumCounts' = SumCounts + Cardinality(CapturedNow)
               /\ ballsBeingDropped' = ballsBeingDropped
                      - Cardinality(CapturedNow) - Cardinality(LostNow)]_vars

\* A frame has run with one ball finalized in its bin, at rest, and another
\* still falling.
C16_Witness ==
    /\ op = "frame"
    /\ \E i \in 1..Len(balls) :
          /\ balls[i].landed /\ balls[i].isSettling
          /\ balls[i].vx = 0 /\ balls[i].vy = 0
    /\ \E j \in 1..Len(balls) : Falling(balls[j])

\* The one falling ball of the state.
TheFalling == CHOOSE i \in 1..Len(balls) : Falling(balls[i])

\* That ball as the bin step of the coming tick finds it: moved, and past
\* the walls and the pegs (it is within reach of neither here).
Arrived ==
    handleBallPegCollisions(
        handleBallWallCollisions(
            applyBallPhysics(BallOf(Cur, TheFalling), layout), layout),
        pegs, layout, [bump |-> 0, nudge |-> 0]).ball

\* The ball b overlaps bin j horizontally.
Overlaps(b, j) ==
    /\ b.x + layout.currentBallRadius > bins[j].x
    /\ b.x - layout.currentBallRadius < bins[j].x + bins[j].width

\* The bottom edge of b has reached the top of bin j.
ReachedTop(b, j) == b.y + layout.currentBallRadius >= bins[j].y

\* Bin j is the leftmost bin b overlaps, and b has reached its top.
Matched(b, j) ==
    /\ Overlaps(b, j)
    /\ \A k \in 1..(j - 1) : ~Overlaps(b, k)
    /\ ReachedTop(b, j)

\* A frame is taken with exactly one ball falling.
OneBallTick == op' = "frame" /\ NumFalling = 1

\* C17: when the falling ball has reached the top of the bin it overlaps
\* (the leftmost one) and that bin has room, the tick raises that bin's
\* count by one and changes no other bin, and leaves the ball settling, at
\* rest, at the horizontal centre of the bin and one pixel above its floor.
C17_Capture ==
    [][OneBallTick =>
         \A j \in 1..Len(bins) :
            (Matched(Arrived, j) /\ bins[j].count < bins[j].maxCapacity) =>
                /\ bins' = [bins EXCEPT ![j].count = @ + 1]
                /\ Settling(balls'[TheFalling])
                /\ balls'[TheFalling].vx = 0
                /\ balls'[TheFalling].vy = 0
                /\ 2 * balls'[TheFalling].x = 2 * bins[j].x + bins[j].width
                /\ balls'[TheFalling].y + layout.currentBallRadius + Px(1)
                      = bins[j].y + bins[j].height]_vars

\* A ball has just been captured by a bin that already held one.
C17_Witness ==
    /\ op = "frame"
    /\ \E i \in 1..Len(balls) : \E j \in 1..Len(bins) :
          /\ Settling(balls[i])
          /\ Overlaps(balls[i], j)
          /\ bins[j].count = 2

Moved(i) == SideWalls(applyBallPhysics(BallOf(Cur, i), layout), layout).ball

\* C20 as stated: a falling ball whose bottom edge (y + radius) is past the
\* bottom of the surface after its move is lost in that tick, as the move
\* left it; no other ball becomes lost.
C20_Original ==
    [][op' = "frame" =>
         \A i \in 1..Len(balls) :
            IF Falling(balls[i])
            THEN /\ (Moved(i).y + layout.currentBallRadius > layout.height)
                       <=> Lost(balls'[i])
                 /\ Lost(balls'[i]) => balls'[i] = [Moved(i) EXCEPT !.landed = TRUE]
            ELSE Lost(balls'[i]) <=> Lost(balls[i])]_vars

\* C20 as amended: a falling ball whose top edge (y - radius) is past the
\* bottom of the surface after its move is lost in that tick, exactly as the
\* move left it (no peg or bin step); no other ball becomes lost, a settling
\* or landed ball never; and a frame without a capture changes no bin.
C20_LostBelowSurface ==
    [][op' = "frame" =>
         /\ \A i \in 1..Len(balls) :
               IF Falling(balls[i])
               THEN /\ (Moved(i).y - layout.currentBallRadius > layout.height)
                          <=> Lost(balls'[i])
                    /\ Lost(balls'[i]) =>
                          balls'[i] = [Moved(i) EXCEPT !.landed = TRUE]
               ELSE Lost(balls'[i]) <=> Lost(balls[i])
         /\ CapturedNow = {} => bins' = bins]_vars

\* A frame has run with a ball lost below the surface, still moving down.
C20_Witness ==
    /\ op = "frame"
    /\ \E i \in 1..Len(balls) :
          /\ Lost(balls[i])
          /\ balls[i].y - layout.currentBallRadius > layout.height
          /\ balls[i].vy > 0

\* The marks of the given shape on the surface, in drawing order.
Drawn(surface, shape) == SelectSeq(surface, LAMBDA m : m.shape = shape)

\* The positions of the balls that were falling before the step.
FallingBefore ==
    LET free == SelectSeq(balls, Falling)
    IN  [i \in 1..Len(free) |-> <<free[i].x, free[i].y>>]

\* C21: the picture a frame leaves shows, in this order, the pegs, one
\* circle for each ball that was falling before the tick at the position it
\* had before the tick (none for a settling or landed ball), and the bins
\* with the counts they have after the tick.
C21_DrawOrder ==
    [][op' = "frame" =>
         /\ canvas' = Drawn(canvas', "peg") \o Drawn(canvas', "ball")
                         \o Drawn(canvas', "bin")
         /\ Len(Drawn(canvas', "peg")) = Len(pegs)
         /\ [i \in 1..Len(Drawn(canvas', "ball")) |->
                <<Drawn(canvas', "ball")[i].x, Drawn(canvas', "ball")[i].y>>]
               = FallingBefore
         /\ [i \in 1..Len(Drawn(canvas', "bin")) |-> Drawn(canvas', "bin")[i].n]
               = [i \in 1..Len(bins') |-> bins'[i].count]]_vars

\* A frame has drawn a ball in flight and, above a bin, the count of one for
\* the capture of that same tick.
C21_Witness ==
    /\ op = "frame"
    /\ Len(Drawn(canvas, "ball")) = 1
    /\ \E i \in 1..Len(balls) : Settling(balls[i])
    /\ \E j \in 1..Len(canvas) : canvas[j].shape = "bin" /\ canvas[j].n = 1
    /\ NumFalling = 0

\* The operations that rebuild the board when they are let through.
Rebuilders == {"start", "reset", "rows", "capacity", "resize"}

\* C22: a start that is let through leaves exactly one ball, already drawn
\* by its first frame; a spawn-timer firing appends one ball while fewer
\* than the total have been spawned and otherwise cancels the timer and adds
\* none; nothing but a reset, or a start or a parameter or viewport change
\* from idle, removes a ball; and while
\* a run is active the balls spawned are never more than the total.
C22_BallListGrows ==
    [][/\ (op' = "start" /\ ~Running /\ alertMsg' = "") =>
            (Len(balls') = 1 /\ Len(Drawn(canvas', "ball")) = 1)
       /\ op' = "spawn" =>
            \A t \in intervals :
               IF Less(t.ballsDroppedThisSession, ballsToDropTotal)
               THEN /\ Len(balls') = Len(balls) + 1
                    /\ SubSeq(balls', 1, Len(balls)) = balls
               ELSE /\ balls' = balls
                    /\ intervals' = {}
                    /\ ~Truthy(dropIntervalId')
       /\ (op' \notin Rebuilders \/ (Running /\ op' # "reset")) =>
            Len(balls') >= Len(balls)
       /\ Running' =>
            /\ Len(balls') <= ballsToDropTotal'
            /\ \A t \in intervals' : t.ballsDroppedThisSession = Len(balls')]_vars

\* The spawn timer has cancelled itself, the total spawned, the run going on.
C22_Witness ==
    /\ op = "spawn"
    /\ Running
    /\ intervals = {}
    /\ Len(balls) = 2
    /\ ballsToDropTotal = 2

\* Every ball has landed and no frame is scheduled.
AllLandedAndIdle == ~Running /\ \A i \in 1..Len(balls) : balls[i].landed

\* C23: a run that has started comes to the state in which every ball has
\* landed and no frame is scheduled, whatever the ball total.
C23_RunEnds == Running ~> AllLandedAndIdle

\* A run of three balls on the board that holds two has ended: both bins are
\* full and the third ball is lost.
C23_Witness ==
    /\ AllLandedAndIdle
    /\ Len(balls) = 3
    /\ SumCounts = 2
    /\ NumLost = 1

\* The step lowers the count of a bin that held a ball, or removes the bin.
CountLowered ==
    \E j \in 1..Len(bins) :
        /\ bins[j].count > 0
        /\ (j > Len(bins') \/ bins'[j].count < bins[j].count)

\* The operations that end in resetSimulation.
Resets == {"reset", "rows", "capacity", "resize"}

\* A start from idle that passed validation.
StartedNow == op' = "start" /\ ~Running /\ alertMsg' = ""

\* C24 as stated: only a reset lowers a bin count.
C24_Original == [][CountLowered => op' \in Resets]_vars

\* C24 as amended: a frame keeps the bins and lowers no count; only a reset
\* and a start from idle that passes validation lower a count, and after
\* either every count is zero.
C24_CountsPersist ==
    [][/\ op' = "frame" =>
            /\ Len(bins') = Len(bins)
            /\ \A j \in 1..Len(bins) :
                  /\ bins'[j].count >= bins[j].count
                  /\ [bins'[j] EXCEPT !.count = 0] = [bins[j] EXCEPT !.count = 0]
       /\ CountLowered => (op' \in Resets \/ StartedNow)
       /\ (StartedNow \/ (op' = "reset")) =>
            \A j \in 1..Len(bins') : bins'[j].count = 0]_vars

\* A frame has run with one ball at rest in its bin, counted, and another
\* still falling.
C24_Witness ==
    /\ op = "frame"
    /\ SumCounts = 1
    /\ NumFalling = 1
    /\ \E i \in 1..Len(balls) : balls[i].landed /\ balls[i].isSettling

\* C25: on a board of rows in [1,30] with rows+1 bins, every operation that
\* may rebuild the board either leaves a board of rows in [1,30] with rows+1
\* bins or raises an alert and leaves layout, pegs and bins as they were.
C25_Claim ==
    [][(/\ op' \in Rebuilders
        /\ InRange(NUM_ROWS, 1, 30)
        /\ Len(bins) = NUM_ROWS + 1) =>
         \/ InRange(NUM_ROWS', 1, 30) /\ Len(bins') = NUM_ROWS' + 1
         \/ alertMsg' # "" /\ UNCHANGED <<layout, pegs, bins>>]_vars

\* The change and resize events.
Events == {"rows", "ballsInput", "capacity", "resize"}

\* C26: a change or resize event that arrives while a frame is scheduled
\* leaves layout, pegs, bins, balls, the picture, the counters, the timers
\* and the controls as they were; one that arrives while idle, other than a
\* change of the ball total, leaves the freshly reset and redrawn board.
C26_EventsOnlyWhileIdle ==
    [][op' \in Events =>
         IF Running
         THEN UNCHANGED <<layout, pegs, bins, balls, canvas, ballsToDropTotal,
                          ballsBeingDropped, animationFrameId, dropIntervalId,
                          rafPending, intervals, disabled>>
         ELSE op' # "ballsInput" =>
                /\ balls' = <<>>
                /\ ~Running'
                /\ SumCountsFrom(bins', 1) = 0
                /\ canvas' = PegMarks(pegs') \o BinMarks(bins')
                /\ disabled'.resetButton]_vars

\* The viewport has been resized during a run with a ball in flight.
C26_Witness ==
    /\ op = "resize"
    /\ wasRunning
    /\ Running
    /\ NumFalling >= 1

\* The moved ball overlaps peg k: the distance of the centres is less than
\* the ball radius plus the peg radius.
Hits(b, k) ==
    /\ Abs(b.x - pegs[k].x) < layout.currentBallRadius + layout.currentPegRadius
    /\ Abs(b.y - pegs[k].y) < layout.currentBallRadius + layout.currentPegRadius
    /\ (b.x - pegs[k].x) * (b.x - pegs[k].x) + (b.y - pegs[k].y) * (b.y - pegs[k].y)
          < (layout.currentBallRadius + layout.currentPegRadius)
              * (layout.currentBallRadius + layout.currentPegRadius)

\* C27: after a tick in which the moved ball overlapped a peg, the ball's
\* horizontal velocity points away from the centre of that peg (to the
\* right when the ball is straight above or below it), its magnitude is
\* between 0.5 and 1.5 times scaleFactor, and the collision has reversed and
\* damped its vertical velocity; a ball that overlapped no peg keeps its
\* horizontal velocity.
C27_PegBounce ==
    [][OneBallTick =>
         /\ \A k \in 1..Len(pegs) :
               Hits(Moved(TheFalling), k) =>
                  /\ Moved(TheFalling).x < pegs[k].x => balls'[TheFalling].vx < 0
                  /\ Moved(TheFalling).x >= pegs[k].x => balls'[TheFalling].vx > 0
                  /\ Abs(balls'[TheFalling].vx) >= Times(500, layout.scaleFactor)
                  /\ Abs(balls'[TheFalling].vx) <= Times(1500, layout.scaleFactor)
                  /\ balls'[TheFalling].vy
                        = Times(Moved(TheFalling).vy, -BOUNCE_FACTOR)
         /\ (\A k \in 1..Len(pegs) : ~Hits(Moved(TheFalling), k)) =>
               (Falling(balls'[TheFalling]) =>
                   balls'[TheFalling].vx = Moved(TheFalling).vx)]_vars

\* A ball has hit a peg from the left and left it faster than the minimum.
C27_Witness ==
    /\ op = "frame"
    /\ \E i \in 1..Len(balls) : \E k \in 1..Len(pegs) :
          /\ Falling(balls[i])
          /\ balls[i].x < pegs[k].x
          /\ balls[i].vx < -Times(500, layout.scaleFactor)
          /\ Abs(balls[i].y - pegs[k].y)
                = Times(layout.currentBallRadius + layout.currentPegRadius, 510)

\* C28: after a tick in which the moved ball overlapped a peg, the ball is
\* on the side of the peg centre (above or below) on which it was, and no
\* longer overlaps that peg.
C28_Claim ==
    [][OneBallTick =>
         \A k \in 1..Len(pegs) :
            Hits(Moved(TheFalling), k) =>
               /\ Moved(TheFalling).y < pegs[k].y => balls'[TheFalling].y < pegs[k].y
               /\ Moved(TheFalling).y > pegs[k].y => balls'[TheFalling].y > pegs[k].y
               /\ ~Hits(balls'[TheFalling], k)]_vars

\* C29: between callbacks the browser holds at most one frame callback, the
\* one animationFrameId names, and holds it exactly while the session is
\* running; it holds at most one spawn timer, the one dropIntervalId names,
\* and only while the session is running.
C29_OneLoopOneTimer ==
    /\ Cardinality(rafPending) <= 1
    /\ Cardinality(intervals) <= 1
    /\ rafPending = (IF Running THEN {animationFrameId} ELSE {})
    /\ intervals # {} => Running
    /\ \A t \in intervals : t.id = dropIntervalId

\* A run has been started right after a reset that ended a run, and has its
\* one frame callback and its one spawn timer.
C29_Witness ==
    /\ op = "start"
    /\ wasMidRunReset
    /\ Running
    /\ Cardinality(rafPending) = 1
    /\ Cardinality(intervals) = 1

\* C30: in a frame the bin counts rise by one for each ball that goes from
\* falling to settling and by nothing else, no count falls, the active-ball
\* counter falls by one for each ball captured or lost in that frame and by
\* nothing else, and a ball that has stopped falling never falls again; a
\* spawn-timer firing changes no count; while the session is running the
\* active-ball counter is the number of balls still falling.
C30_AccountedOnce ==
    [][/\ op' = "frame" =>
            /\ SumCountsFrom(bins', 1) = SumCounts + Cardinality(CapturedNow)
            /\ \A j \in 1..Len(bins) : bins'[j].count >= bins[j].count
            /\ ballsBeingDropped' = ballsBeingDropped - Cardinality(CapturedNow)
                                       - Cardinality(LostNow)
            /\ CapturedNow \cap LostNow = {}
            /\ \A i \in 1..Len(balls) : ~Falling(balls[i]) => ~Falling(balls'[i])
       /\ op' = "spawn" =>
            /\ bins' = bins
            /\ ballsBeingDropped' = ballsBeingDropped + Len(balls') - Len(balls)
       /\ Running' =>
            ballsBeingDropped'
               = Cardinality({i \in 1..Len(balls') : Falling(balls'[i])})]_vars

\* A run has ended by itself with one ball counted in a bin, the other lost
\* and the active-ball counter back at zero.
C30_Witness ==
    /\ op = "frame"
    /\ ~Running
    /\ SumCounts = 1
    /\ NumLost = 1
    /\ ballsBeingDropped = 0

\* C31: in every state the active-ball counter is the number of balls in the
\* list that are neither settling nor landed; it is never negative, and it
\* is not above zero when every ball is landed.
C31_CounterIsFalling ==
    /\ ballsBeingDropped = NumFalling
    /\ ballsBeingDropped >= 0
    /\ (\A i \in 1..Len(balls) : balls[i].landed) => ~(ballsBeingDropped > 0)

\* The spawn timer has dropped the second ball while the first is still in
\* flight: two balls falling, the counter at two.
C31_Witness ==
    /\ op = "spawn"
    /\ Running
    /\ Len(balls) = 2
    /\ NumFalling = 2
    /\ ballsBeingDropped = 2

====
